---- MODULE Spec2Model ----
(***************************************************************************)
(* Model of epan/to_str.c: the fixed-capacity text encoders (hex, decimal, *)
(* hex dumps, addresses).  Every routine is a synchronous function over    *)
(* its arguments and a destination buffer; one call is one action.         *)
(*                                                                         *)
(* Memory is a partial map from byte index to character: its domain is the *)
(* set of bytes written by the call, an index outside it is a byte the     *)
(* call never stored to.  The destination buffer starts at index 0.        *)
(* guint32/guint64 values are kept as little-endian sequences of 16-bit    *)
(* limbs so that the full unsigned range is represented exactly.           *)
(***************************************************************************)
EXTENDS Integers, Sequences, FiniteSets, TLC

VARIABLES pc, fn, arg, mem, ret, fatal, iters, alloc

vars == <<pc, fn, arg, mem, ret, fatal, iters, alloc>>

----------------------------------------------------------------------------
(* Bounds of the model *)

\* largest declared capacity handed to the bounded formatters
MaxBufLen == 22

\* longest byte sequence handed to the hex-dump formatters
MaxByteLen == 38

\* largest declared capacity handed to the address formatters
MaxAddrBufLen == 48

----------------------------------------------------------------------------
(* Characters *)

AsciiChars ==
    << " ", "!", "\"", "#", "$", "%", "&", "'", "(", ")", "*", "+",
       ",", "-", ".", "/", "0", "1", "2", "3", "4", "5", "6", "7",
       "8", "9", ":", ";", "<", "=", ">", "?", "@", "A", "B", "C",
       "D", "E", "F", "G", "H", "I", "J", "K", "L", "M", "N", "O",
       "P", "Q", "R", "S", "T", "U", "V", "W", "X", "Y", "Z", "[",
       "\\", "]", "^", "_", "GRAVE", "a", "b", "c", "d", "e", "f", "g",
       "h", "i", "j", "k", "l", "m", "n", "o", "p", "q", "r", "s",
       "t", "u", "v", "w", "x", "y", "z", "{", "|", "}", "~" >>

\* character code of a printable ASCII character
Ord(c) == 31 + (CHOOSE i \in 1..Len(AsciiChars) : AsciiChars[i] = c)

Chr(n) == AsciiChars[n - 31]

\* the terminator '\0'
NUL == "NUL"

\* content of a byte the call did not store to
Junk == "JUNK"

Min(a, b) == IF a < b THEN a ELSE b

Max(a, b) == IF a > b THEN a ELSE b

RECURSIVE BitOr(_, _)
BitOr(a, b) ==
    IF a = 0 THEN b
    ELSE IF b = 0 THEN a
    ELSE 2 * BitOr(a \div 2, b \div 2) + (IF a % 2 = 1 \/ b % 2 = 1 THEN 1 ELSE 0)

RECURSIVE BitAnd(_, _)
BitAnd(a, b) ==
    IF a = 0 \/ b = 0 THEN 0
    ELSE 2 * BitAnd(a \div 2, b \div 2) + (IF a % 2 = 1 /\ b % 2 = 1 THEN 1 ELSE 0)

----------------------------------------------------------------------------
(* Fixed-width unsigned integers: <<limb_0, ..., limb_{w-1}>>, limb_0 the   *)
(* least significant 16 bits.  guint32 has 2 limbs, guint64 has 4.          *)

LimbBase == 65536

Zero(w) == [i \in 1..w |-> 0]

IsZero(v) == \A i \in 1..Len(v) : v[i] = 0

\* v >= c for a constant 0 <= c < 65536
GeSmall(v, c) == (\E i \in 2..Len(v) : v[i] # 0) \/ v[1] >= c

RECURSIVE GeFrom(_, _, _)
GeFrom(a, b, i) ==
    IF i = 0 THEN TRUE
    ELSE IF a[i] # b[i] THEN a[i] > b[i]
    ELSE GeFrom(a, b, i - 1)

\* a >= b, same width
Ge(a, b) == GeFrom(a, b, Len(a))

RECURSIVE DivStep(_, _, _, _)
DivStep(v, d, i, rem) ==
    IF i = 0 THEN [q |-> <<>>, r |-> rem]
    ELSE LET cur  == rem * LimbBase + v[i]
             rest == DivStep(v, d, i - 1, cur % d)
         IN  [q |-> Append(rest.q, cur \div d), r |-> rest.r]

\* v / d and v % d for a constant 0 < d < 65536
DivSmall(v, d) == DivStep(v, d, Len(v), 0).q

ModSmall(v, d) == DivStep(v, d, Len(v), 0).r

RECURSIVE MulAddStep(_, _, _, _)
MulAddStep(v, m, i, carry) ==
    IF i > Len(v) THEN <<>>
    ELSE LET cur == v[i] * m + carry
         IN  <<cur % LimbBase>> \o MulAddStep(v, m, i + 1, cur \div LimbBase)

\* (v * m + a) modulo 2^(16*Len(v)), m and a below 65536
MulAdd(v, m, a) == MulAddStep(v, m, 1, a)

RECURSIVE LitFrom(_, _, _)
LitFrom(ds, i, acc) ==
    IF i > Len(ds) THEN acc ELSE LitFrom(ds, i + 1, MulAdd(acc, 10, ds[i]))

\* the w-limb value of a decimal literal given by its digits
Lit(ds, w) == LitFrom(ds, 1, Zero(w))

\* two's complement negation in the width of v
Neg(v) == MulAdd([i \in 1..Len(v) |-> LimbBase - 1 - v[i]], 1, 1)

----------------------------------------------------------------------------
(* Reference renderings, independent of the routines under study *)

Digit(d) == Chr(Ord("0") + d)

RECURSIVE CanonDec(_)
\* canonical decimal text: one digit per division by ten, no leading zero
CanonDec(v) ==
    IF ~GeSmall(v, 10) THEN <<Digit(v[1])>>
    ELSE Append(CanonDec(DivSmall(v, 10)), Digit(ModSmall(v, 10)))

\* value of a decimal text, in w limbs
ParseDec(text, w) == Lit([i \in 1..Len(text) |-> Ord(text[i]) - Ord("0")], w)

Take(s, n) == SubSeq(s, 1, Min(n, Len(s)))

----------------------------------------------------------------------------
(* Memory *)

NoMem == <<>>

\* store c at index i
Poke(m, i, c) == (i :> c) @@ m

Peek(m, i) == IF i \in DOMAIN m THEN m[i] ELSE Junk

\* store the characters of s at at, at+1, ...
PokeSeq(m, at, s) == [k \in at..(at + Len(s) - 1) |-> s[k - at + 1]] @@ m

\* m is a map of stored bytes.  Always true; used in loop guards so that the
\* stores of one iteration are evaluated before the next iteration starts.
Stored(m) == DOMAIN m \subseteq Int

\* the bytes m holds in [from, to)
Span(m, from, to) == [i \in 1..(to - from) |-> Peek(m, from + i - 1)]

\* the C string that starts at index at (the read stops after 128 bytes)
CStr(m, at) ==
    LET n == CHOOSE k \in 0..128 :
                 /\ k = 128 \/ Peek(m, at + k) = NUL
                 /\ \A j \in 0..(k - 1) : Peek(m, at + j) # NUL
    IN  Span(m, at, at + n)

\* some index in [at, at+n) holds the terminator
HasNul(m, at, n) == \E i \in at..(at + n - 1) : Peek(m, i) = NUL

----------------------------------------------------------------------------
(* Literal data of the source *)

BUF_TOO_SMALL_ERR ==
    <<"[", "B", "u", "f", "f", "e", "r", " ", "t", "o", "o", " ",
      "s", "m", "a", "l", "l", "]">>

hex_digits ==
    <<"0", "1", "2", "3", "4", "5", "6", "7",
      "8", "9", "a", "b", "c", "d", "e", "f">>

MAX_BYTE_STR_LEN == 72

fast_strings ==
    << <<"0">>, <<"1">>, <<"2">>, <<"3">>, <<"4">>, <<"5">>, <<"6">>, <<"7">>,
       <<"8">>, <<"9">>, <<"1","0">>, <<"1","1">>, <<"1","2">>, <<"1","3">>, <<"1","4">>, <<"1","5">>,
       <<"1","6">>, <<"1","7">>, <<"1","8">>, <<"1","9">>, <<"2","0">>, <<"2","1">>, <<"2","2">>, <<"2","3">>,
       <<"2","4">>, <<"2","5">>, <<"2","6">>, <<"2","7">>, <<"2","8">>, <<"2","9">>, <<"3","0">>, <<"3","1">>,
       <<"3","2">>, <<"3","3">>, <<"3","4">>, <<"3","5">>, <<"3","6">>, <<"3","7">>, <<"3","8">>, <<"3","9">>,
       <<"4","0">>, <<"4","1">>, <<"4","2">>, <<"4","3">>, <<"4","4">>, <<"4","5">>, <<"4","6">>, <<"4","7">>,
       <<"4","8">>, <<"4","9">>, <<"5","0">>, <<"5","1">>, <<"5","2">>, <<"5","3">>, <<"5","4">>, <<"5","5">>,
       <<"5","6">>, <<"5","7">>, <<"5","8">>, <<"5","9">>, <<"6","0">>, <<"6","1">>, <<"6","2">>, <<"6","3">>,
       <<"6","4">>, <<"6","5">>, <<"6","6">>, <<"6","7">>, <<"6","8">>, <<"6","9">>, <<"7","0">>, <<"7","1">>,
       <<"7","2">>, <<"7","3">>, <<"7","4">>, <<"7","5">>, <<"7","6">>, <<"7","7">>, <<"7","8">>, <<"7","9">>,
       <<"8","0">>, <<"8","1">>, <<"8","2">>, <<"8","3">>, <<"8","4">>, <<"8","5">>, <<"8","6">>, <<"8","7">>,
       <<"8","8">>, <<"8","9">>, <<"9","0">>, <<"9","1">>, <<"9","2">>, <<"9","3">>, <<"9","4">>, <<"9","5">>,
       <<"9","6">>, <<"9","7">>, <<"9","8">>, <<"9","9">>, <<"1","0","0">>, <<"1","0","1">>, <<"1","0","2">>, <<"1","0","3">>,
       <<"1","0","4">>, <<"1","0","5">>, <<"1","0","6">>, <<"1","0","7">>, <<"1","0","8">>, <<"1","0","9">>, <<"1","1","0">>, <<"1","1","1">>,
       <<"1","1","2">>, <<"1","1","3">>, <<"1","1","4">>, <<"1","1","5">>, <<"1","1","6">>, <<"1","1","7">>, <<"1","1","8">>, <<"1","1","9">>,
       <<"1","2","0">>, <<"1","2","1">>, <<"1","2","2">>, <<"1","2","3">>, <<"1","2","4">>, <<"1","2","5">>, <<"1","2","6">>, <<"1","2","7">>,
       <<"1","2","8">>, <<"1","2","9">>, <<"1","3","0">>, <<"1","3","1">>, <<"1","3","2">>, <<"1","3","3">>, <<"1","3","4">>, <<"1","3","5">>,
       <<"1","3","6">>, <<"1","3","7">>, <<"1","3","8">>, <<"1","3","9">>, <<"1","4","0">>, <<"1","4","1">>, <<"1","4","2">>, <<"1","4","3">>,
       <<"1","4","4">>, <<"1","4","5">>, <<"1","4","6">>, <<"1","4","7">>, <<"1","4","8">>, <<"1","4","9">>, <<"1","5","0">>, <<"1","5","1">>,
       <<"1","5","2">>, <<"1","5","3">>, <<"1","5","4">>, <<"1","5","5">>, <<"1","5","6">>, <<"1","5","7">>, <<"1","5","8">>, <<"1","5","9">>,
       <<"1","6","0">>, <<"1","6","1">>, <<"1","6","2">>, <<"1","6","3">>, <<"1","6","4">>, <<"1","6","5">>, <<"1","6","6">>, <<"1","6","7">>,
       <<"1","6","8">>, <<"1","6","9">>, <<"1","7","0">>, <<"1","7","1">>, <<"1","7","2">>, <<"1","7","3">>, <<"1","7","4">>, <<"1","7","5">>,
       <<"1","7","6">>, <<"1","7","7">>, <<"1","7","8">>, <<"1","7","9">>, <<"1","8","0">>, <<"1","8","1">>, <<"1","8","2">>, <<"1","8","3">>,
       <<"1","8","4">>, <<"1","8","5">>, <<"1","8","6">>, <<"1","8","7">>, <<"1","8","8">>, <<"1","8","9">>, <<"1","9","0">>, <<"1","9","1">>,
       <<"1","9","2">>, <<"1","9","3">>, <<"1","9","4">>, <<"1","9","5">>, <<"1","9","6">>, <<"1","9","7">>, <<"1","9","8">>, <<"1","9","9">>,
       <<"2","0","0">>, <<"2","0","1">>, <<"2","0","2">>, <<"2","0","3">>, <<"2","0","4">>, <<"2","0","5">>, <<"2","0","6">>, <<"2","0","7">>,
       <<"2","0","8">>, <<"2","0","9">>, <<"2","1","0">>, <<"2","1","1">>, <<"2","1","2">>, <<"2","1","3">>, <<"2","1","4">>, <<"2","1","5">>,
       <<"2","1","6">>, <<"2","1","7">>, <<"2","1","8">>, <<"2","1","9">>, <<"2","2","0">>, <<"2","2","1">>, <<"2","2","2">>, <<"2","2","3">>,
       <<"2","2","4">>, <<"2","2","5">>, <<"2","2","6">>, <<"2","2","7">>, <<"2","2","8">>, <<"2","2","9">>, <<"2","3","0">>, <<"2","3","1">>,
       <<"2","3","2">>, <<"2","3","3">>, <<"2","3","4">>, <<"2","3","5">>, <<"2","3","6">>, <<"2","3","7">>, <<"2","3","8">>, <<"2","3","9">>,
       <<"2","4","0">>, <<"2","4","1">>, <<"2","4","2">>, <<"2","4","3">>, <<"2","4","4">>, <<"2","4","5">>, <<"2","4","6">>, <<"2","4","7">>,
       <<"2","4","8">>, <<"2","4","9">>, <<"2","5","0">>, <<"2","5","1">>, <<"2","5","2">>, <<"2","5","3">>, <<"2","5","4">>, <<"2","5","5">> >>

\* g_strlcpy(dest, src, dest_size): copies at most dest_size-1 characters and
\* terminates when dest_size is not 0; returns strlen(src)
g_strlcpy(m, dest, src, dest_size) ==
    IF dest_size = 0 THEN [mem |-> m, ret |-> Len(src)]
    ELSE LET n == Min(Len(src), dest_size - 1)
         IN  [mem |-> Poke(PokeSeq(m, dest, SubSeq(src, 1, n)), dest + n, NUL),
              ret |-> Len(src)]

----------------------------------------------------------------------------
(* Decimal digit count: the cascade of magnitude comparisons *)

\* the cascade with the comparison against 100000000 left out
guint32_to_str_buf_len_skip9(u) ==
    IF      Ge(u, Lit(<<1,0,0,0,0,0,0,0,0,0>>, 2)) THEN 10
    ELSE IF Ge(u, Lit(<<1,0,0,0,0,0,0,0>>, 2))     THEN 8
    ELSE IF Ge(u, Lit(<<1,0,0,0,0,0,0>>, 2))       THEN 7
    ELSE IF Ge(u, Lit(<<1,0,0,0,0,0>>, 2))         THEN 6
    ELSE IF Ge(u, Lit(<<1,0,0,0,0>>, 2))           THEN 5
    ELSE IF Ge(u, Lit(<<1,0,0,0>>, 2))             THEN 4
    ELSE IF Ge(u, Lit(<<1,0,0>>, 2))               THEN 3
    ELSE IF Ge(u, Lit(<<1,0>>, 2))                 THEN 2
    ELSE 1

guint32_to_str_buf_len(u) ==
    IF      Ge(u, Lit(<<1,0,0,0,0,0,0,0,0,0>>, 2)) THEN 10
    ELSE IF Ge(u, Lit(<<1,0,0,0,0,0,0,0,0>>, 2))   THEN 9
    ELSE IF Ge(u, Lit(<<1,0,0,0,0,0,0,0>>, 2))     THEN 8
    ELSE IF Ge(u, Lit(<<1,0,0,0,0,0,0>>, 2))       THEN 7
    ELSE IF Ge(u, Lit(<<1,0,0,0,0,0>>, 2))         THEN 6
    ELSE IF Ge(u, Lit(<<1,0,0,0,0>>, 2))           THEN 5
    ELSE IF Ge(u, Lit(<<1,0,0,0>>, 2))             THEN 4
    ELSE IF Ge(u, Lit(<<1,0,0>>, 2))               THEN 3
    ELSE IF Ge(u, Lit(<<1,0>>, 2))                 THEN 2
    ELSE 1

guint64_to_str_buf_len(u) ==
    IF      Ge(u, Lit(<<1,0,0,0,0,0,0,0,0,0,0,0,0,0,0,0,0,0,0,0>>, 4)) THEN 20
    ELSE IF Ge(u, Lit(<<1,0,0,0,0,0,0,0,0,0,0,0,0,0,0,0,0,0,0>>, 4))   THEN 19
    ELSE IF Ge(u, Lit(<<1,0,0,0,0,0,0,0,0,0,0,0,0,0,0,0,0,0>>, 4))     THEN 18
    ELSE IF Ge(u, Lit(<<1,0,0,0,0,0,0,0,0,0,0,0,0,0,0,0,0>>, 4))       THEN 17
    ELSE IF Ge(u, Lit(<<1,0,0,0,0,0,0,0,0,0,0,0,0,0,0,0>>, 4))         THEN 16
    ELSE IF Ge(u, Lit(<<1,0,0,0,0,0,0,0,0,0,0,0,0,0,0>>, 4))           THEN 15
    ELSE IF Ge(u, Lit(<<1,0,0,0,0,0,0,0,0,0,0,0,0,0>>, 4))             THEN 14
    ELSE IF Ge(u, Lit(<<1,0,0,0,0,0,0,0,0,0,0,0,0>>, 4))               THEN 13
    ELSE IF Ge(u, Lit(<<1,0,0,0,0,0,0,0,0,0,0,0>>, 4))                 THEN 12
    ELSE IF Ge(u, Lit(<<1,0,0,0,0,0,0,0,0,0,0>>, 4))                   THEN 11
    ELSE IF Ge(u, Lit(<<1,0,0,0,0,0,0,0,0,0>>, 4))                     THEN 10
    ELSE IF Ge(u, Lit(<<1,0,0,0,0,0,0,0,0>>, 4))                       THEN 9
    ELSE IF Ge(u, Lit(<<1,0,0,0,0,0,0,0>>, 4))                         THEN 8
    ELSE IF Ge(u, Lit(<<1,0,0,0,0,0,0>>, 4))                           THEN 7
    ELSE IF Ge(u, Lit(<<1,0,0,0,0,0>>, 4))                             THEN 6
    ELSE IF Ge(u, Lit(<<1,0,0,0,0>>, 4))                               THEN 5
    ELSE IF Ge(u, Lit(<<1,0,0,0>>, 4))                                 THEN 4
    ELSE IF Ge(u, Lit(<<1,0,0>>, 4))                                   THEN 3
    ELSE IF Ge(u, Lit(<<1,0>>, 4))                                     THEN 2
    ELSE 1

----------------------------------------------------------------------------
(* Backward numeric writer.  ptr is the index one past the last character  *)
(* to write; the result carries the memory, the returned (leftmost)        *)
(* position and the number of iterations of the two-digit loop.            *)

RECURSIVE uint_to_str_back_loop(_, _, _, _)
\* while (value >= 10) { p = fast_strings[100 + value % 100]; value /= 100;
\*                       *(--ptr) = p[2]; *(--ptr) = p[1]; }
uint_to_str_back_loop(m, ptr, value, n) ==
    IF GeSmall(value, 10) /\ Stored(m)
    THEN LET p  == fast_strings[100 + ModSmall(value, 100) + 1]
             m1 == Poke(m, ptr - 1, p[3])
             m2 == Poke(m1, ptr - 2, p[2])
         IN  uint_to_str_back_loop(m2, ptr - 2, DivSmall(value, 100), n + 1)
    ELSE [mem |-> m, ptr |-> ptr, value |-> value, iters |-> n]

uint_to_str_back(m, ptr, value) ==
    LET m0 == IF IsZero(value) THEN Poke(m, ptr - 1, "0") ELSE m
        p0 == IF IsZero(value) THEN ptr - 1 ELSE ptr
        l  == uint_to_str_back_loop(m0, p0, value, 0)
    IN  IF ~IsZero(l.value)
        THEN [mem   |-> Poke(l.mem, l.ptr - 1, Chr(BitOr(l.value[1], Ord("0")))),
              ptr   |-> l.ptr - 1,
              iters |-> l.iters]
        ELSE [mem |-> l.mem, ptr |-> l.ptr, iters |-> l.iters]

RECURSIVE uint64_to_str_back_loop(_, _, _, _)
uint64_to_str_back_loop(m, ptr, value, n) ==
    IF GeSmall(value, 10) /\ Stored(m)
    THEN LET p  == fast_strings[100 + ModSmall(value, 100) + 1]
             m1 == Poke(m, ptr - 1, p[3])
             m2 == Poke(m1, ptr - 2, p[2])
         IN  uint64_to_str_back_loop(m2, ptr - 2, DivSmall(value, 100), n + 1)
    ELSE [mem |-> m, ptr |-> ptr, value |-> value, iters |-> n]

\* the writer without the special case for zero
uint64_to_str_back_nozero(m, ptr, value) ==
    LET l == uint64_to_str_back_loop(m, ptr, value, 0)
    IN  IF ~IsZero(l.value)
        THEN [mem   |-> Poke(l.mem, l.ptr - 1,
                             Chr(BitOr(BitAnd(l.value[1], 15), Ord("0")))),
              ptr   |-> l.ptr - 1,
              iters |-> l.iters]
        ELSE [mem |-> l.mem, ptr |-> l.ptr, iters |-> l.iters]

uint64_to_str_back(m, ptr, value) ==
    LET m0 == IF IsZero(value) THEN Poke(m, ptr - 1, "0") ELSE m
        p0 == IF IsZero(value) THEN ptr - 1 ELSE ptr
        l  == uint64_to_str_back_loop(m0, p0, value, 0)
    IN  IF ~IsZero(l.value)
        THEN [mem   |-> Poke(l.mem, l.ptr - 1,
                             Chr(BitOr(BitAnd(l.value[1], 15), Ord("0")))),
              ptr   |-> l.ptr - 1,
              iters |-> l.iters]
        ELSE [mem |-> l.mem, ptr |-> l.ptr, iters |-> l.iters]

----------------------------------------------------------------------------
(* Bounded buffer formatter.  buf is the index of the buffer's first byte. *)

\* the formatter storing the terminator at bp instead of bp - 1
guint32_to_str_buf_nodec(m, u, buf, buf_len) ==
    LET str_len == guint32_to_str_buf_len(u) + 1
        bp      == buf + str_len
    IN  IF buf_len < str_len
        THEN g_strlcpy(m, buf, BUF_TOO_SMALL_ERR, buf_len).mem
        ELSE uint_to_str_back(Poke(m, bp, NUL), bp, u).mem

guint32_to_str_buf(m, u, buf, buf_len) ==
    LET str_len == guint32_to_str_buf_len(u) + 1
        bp      == buf + str_len
    IN  IF buf_len < str_len
        THEN g_strlcpy(m, buf, BUF_TOO_SMALL_ERR, buf_len).mem
        ELSE uint_to_str_back(Poke(m, bp - 1, NUL), bp - 1, u).mem

\* the formatter whose capacity test forgets the terminator
guint64_to_str_buf_noterm(m, u, buf, buf_len) ==
    LET str_len == guint64_to_str_buf_len(u) + 1
        bp      == buf + str_len
    IN  IF buf_len < str_len - 1
        THEN g_strlcpy(m, buf, BUF_TOO_SMALL_ERR, buf_len).mem
        ELSE uint64_to_str_back(Poke(m, bp - 1, NUL), bp - 1, u).mem

guint64_to_str_buf(m, u, buf, buf_len) ==
    LET str_len == guint64_to_str_buf_len(u) + 1
        bp      == buf + str_len
    IN  IF buf_len < str_len
        THEN g_strlcpy(m, buf, BUF_TOO_SMALL_ERR, buf_len).mem
        ELSE uint64_to_str_back(Poke(m, bp - 1, NUL), bp - 1, u).mem

----------------------------------------------------------------------------
(* Hex encoder.  out is the index of the next byte to write; each routine *)
(* returns the memory and the advanced position.                          *)

low_nibble_of_octet_to_hex(oct) == hex_digits[(oct % 16) + 1]

byte_to_hex(m, out, dword) ==
    [mem |-> Poke(Poke(m, out, low_nibble_of_octet_to_hex(dword \div 16)),
                  out + 1, low_nibble_of_octet_to_hex(dword)),
     out |-> out + 2]

\* conversion of a guint32 to guint16, and dword >> 16
ToU16(dword) == dword[1]

Shr16(dword) == Tail(dword) \o <<0>>

word_to_hex(m, out, word) ==
    LET hi == byte_to_hex(m, out, word \div 256)
    IN  byte_to_hex(hi.mem, hi.out, word)

dword_to_hex(m, out, dword) ==
    LET hi == word_to_hex(m, out, ToU16(Shr16(dword)))
    IN  word_to_hex(hi.mem, hi.out, ToU16(dword))

RECURSIVE bytes_to_hexstr_loop(_, _, _, _, _)
\* for (i = from; i < len; i++) out = byte_to_hex(out, ad[i]);   (ad 1-based here)
bytes_to_hexstr_loop(m, out, ad, i, len) ==
    IF i < len /\ Stored(m)
    THEN LET r == byte_to_hex(m, out, ad[i + 1])
         IN  bytes_to_hexstr_loop(r.mem, r.out, ad, i + 1, len)
    ELSE [mem |-> m, out |-> out]

\* a pointer to bytes is [null |-> BOOLEAN, bytes |-> the bytes it points at]
bytes_to_hexstr(m, out, ad, len) ==
    IF ad.null
    THEN [fatal |-> TRUE, mem |-> m, out |-> out]
    ELSE LET r == bytes_to_hexstr_loop(m, out, ad.bytes, 0, len)
         IN  [fatal |-> FALSE, mem |-> r.mem, out |-> r.out]

RECURSIVE bytes_to_hexstr_punct_loop(_, _, _, _, _, _)
\* for (i = 1; i < len; i++) { *out++ = punct; out = byte_to_hex(out, ad[i]); }
bytes_to_hexstr_punct_loop(m, out, ad, i, len, punct) ==
    IF i < len /\ Stored(m)
    THEN LET r == byte_to_hex(Poke(m, out, punct), out + 1, ad[i + 1])
         IN  bytes_to_hexstr_punct_loop(r.mem, r.out, ad, i + 1, len, punct)
    ELSE [mem |-> m, out |-> out]

bytes_to_hexstr_punct(m, out, ad, len, punct) ==
    IF ad.null
    THEN [fatal |-> TRUE, mem |-> m, out |-> out]
    ELSE LET first == byte_to_hex(m, out, ad.bytes[1])
             r     == bytes_to_hexstr_punct_loop(first.mem, first.out, ad.bytes,
                                                 1, len, punct)
         IN  [fatal |-> FALSE, mem |-> r.mem, out |-> r.out]

----------------------------------------------------------------------------
(* Hex dump formatter.  A result is [fatal, alloc, mem, ret]: whether     *)
(* REPORT_DISSECTOR_BUG was raised, the size of the buffer the call       *)
(* allocated (placed at index 0), the bytes stored, the pointer returned. *)

\* UTF8_HORIZONTAL_ELLIPSIS, the three bytes of U+2026
UTF8_HORIZONTAL_ELLIPSIS == <<"xE2", "x80", "xA6">>

\* g_stpcpy(dest, src): copies src with its terminator, returns the
\* position of the terminator
g_stpcpy(m, dest, src) ==
    [mem |-> PokeSeq(m, dest, src \o <<NUL>>), out |-> dest + Len(src)]

\* wmem_strdup(scope, s): a fresh buffer holding s
wmem_strdup(s) ==
    [fatal |-> FALSE, alloc |-> Len(s) + 1,
     mem |-> PokeSeq(NoMem, 0, s \o <<NUL>>), ret |-> 0]

DissectorBug == [fatal |-> TRUE, alloc |-> 0, mem |-> NoMem, ret |-> 0]

\* bytes_to_str with the truncation test against MAX_BYTE_STR_LEN
bytes_to_str_whole(bd, bd_len) ==
    IF bd.null THEN DissectorBug
    ELSE LET size == MAX_BYTE_STR_LEN + 3 + 1
         IN  IF bd_len = 0
             THEN [fatal |-> FALSE, alloc |-> size, mem |-> Poke(NoMem, 0, NUL), ret |-> 0]
             ELSE LET truncated == bd_len > MAX_BYTE_STR_LEN
                      n   == IF truncated THEN MAX_BYTE_STR_LEN ELSE bd_len
                      hex == bytes_to_hexstr(NoMem, 0, bd, n)
                      e   == IF truncated
                             THEN g_stpcpy(hex.mem, hex.out, UTF8_HORIZONTAL_ELLIPSIS)
                             ELSE [mem |-> hex.mem, out |-> hex.out]
                  IN  [fatal |-> hex.fatal, alloc |-> size,
                       mem |-> Poke(e.mem, e.out, NUL), ret |-> 0]

bytes_to_str(bd, bd_len) ==
    IF bd.null THEN DissectorBug
    ELSE LET size == MAX_BYTE_STR_LEN + 3 + 1
         IN  IF bd_len = 0
             THEN [fatal |-> FALSE, alloc |-> size, mem |-> Poke(NoMem, 0, NUL), ret |-> 0]
             ELSE LET truncated == bd_len > MAX_BYTE_STR_LEN \div 2
                      n   == IF truncated THEN MAX_BYTE_STR_LEN \div 2 ELSE bd_len
                      hex == bytes_to_hexstr(NoMem, 0, bd, n)
                      e   == IF truncated
                             THEN g_stpcpy(hex.mem, hex.out, UTF8_HORIZONTAL_ELLIPSIS)
                             ELSE [mem |-> hex.mem, out |-> hex.out]
                  IN  [fatal |-> hex.fatal, alloc |-> size,
                       mem |-> Poke(e.mem, e.out, NUL), ret |-> 0]

\* bytestring_to_str appending the ellipsis without the separator
bytestring_to_str_nosep(ad, len, punct) ==
    IF len = 0 THEN wmem_strdup(<<>>)
    ELSE IF ad.null THEN DissectorBug
    ELSE IF punct = NUL THEN bytes_to_str(ad, len)
    ELSE LET size      == MAX_BYTE_STR_LEN + 3 + 1
             truncated == len > MAX_BYTE_STR_LEN \div 3
             buflen    == IF truncated THEN MAX_BYTE_STR_LEN \div 3 ELSE len
             hex       == bytes_to_hexstr_punct(NoMem, 0, ad, buflen, punct)
             e         == IF truncated
                          THEN g_stpcpy(hex.mem, hex.out, UTF8_HORIZONTAL_ELLIPSIS)
                          ELSE [mem |-> hex.mem, out |-> hex.out]
         IN  [fatal |-> hex.fatal, alloc |-> size,
              mem |-> Poke(e.mem, e.out, NUL), ret |-> 0]

bytestring_to_str(ad, len, punct) ==
    IF len = 0 THEN wmem_strdup(<<>>)
    ELSE IF ad.null THEN DissectorBug
    ELSE IF punct = NUL THEN bytes_to_str(ad, len)
    ELSE LET size      == MAX_BYTE_STR_LEN + 3 + 1
             truncated == len > MAX_BYTE_STR_LEN \div 3
             buflen    == IF truncated THEN MAX_BYTE_STR_LEN \div 3 ELSE len
             hex       == bytes_to_hexstr_punct(NoMem, 0, ad, buflen, punct)
             e         == IF truncated
                          THEN g_stpcpy(Poke(hex.mem, hex.out, punct), hex.out + 1,
                                        UTF8_HORIZONTAL_ELLIPSIS)
                          ELSE [mem |-> hex.mem, out |-> hex.out]
         IN  [fatal |-> hex.fatal, alloc |-> size,
              mem |-> Poke(e.mem, e.out, NUL), ret |-> 0]

----------------------------------------------------------------------------
(* Address formatter *)

WS_INET_ADDRSTRLEN == 16

GUID_STR_LEN == 37

\* do { *b++ = *p; p++; } while (*p);  with p = fast_strings[octet]
copy_fast_string(m, b, octet) ==
    LET p == fast_strings[octet + 1]
    IN  [mem |-> PokeSeq(m, b, p), out |-> b + Len(p)]

\* ip_to_str_buf testing the capacity against the longest text without its
\* terminator
ip_to_str_buf_noterm(m, ad, buf, buf_len) ==
    IF buf_len < WS_INET_ADDRSTRLEN - 1
    THEN g_strlcpy(m, buf, BUF_TOO_SMALL_ERR, buf_len).mem
    ELSE LET o1 == copy_fast_string(m, buf, ad[1])
             o2 == copy_fast_string(Poke(o1.mem, o1.out, "."), o1.out + 1, ad[2])
             o3 == copy_fast_string(Poke(o2.mem, o2.out, "."), o2.out + 1, ad[3])
             o4 == copy_fast_string(Poke(o3.mem, o3.out, "."), o3.out + 1, ad[4])
         IN  Poke(o4.mem, o4.out, NUL)

ip_to_str_buf(m, ad, buf, buf_len) ==
    IF buf_len < WS_INET_ADDRSTRLEN
    THEN g_strlcpy(m, buf, BUF_TOO_SMALL_ERR, buf_len).mem
    ELSE LET o1 == copy_fast_string(m, buf, ad[1])
             o2 == copy_fast_string(Poke(o1.mem, o1.out, "."), o1.out + 1, ad[2])
             o3 == copy_fast_string(Poke(o2.mem, o2.out, "."), o2.out + 1, ad[3])
             o4 == copy_fast_string(Poke(o3.mem, o3.out, "."), o3.out + 1, ad[4])
         IN  Poke(o4.mem, o4.out, NUL)

\* g_snprintf(buf, n, "%s%s", a, b): stores at most n-1 characters of a
\* followed by b and a terminator (nothing when n is 0); returns the number
\* of characters the full output has, not counting the terminator
g_snprintf_ss(m, buf, n, a, b) ==
    LET full == a \o b
    IN  [mem |-> IF n = 0 THEN m
                 ELSE PokeSeq(m, buf, Take(full, n - 1) \o <<NUL>>),
         ret |-> Len(full)]

\* ws_inet_ntop6(addr, addr_buf, sizeof addr_buf): the text of the address
\* (an address is identified with its text)
ws_inet_ntop6(addr) == addr

\* a prefix is a pointer to text: [null |-> BOOLEAN, text |-> characters]
ip6_to_str_buf_with_pfx(m, addr, buf, buf_size, prefix) ==
    LET pfx   == IF prefix.null THEN <<>> ELSE prefix.text
        p     == g_snprintf_ss(m, buf, buf_size, pfx, ws_inet_ntop6(addr))
        bytes == p.ret
        len   == bytes - 1
    IN  IF len > buf_size - 1
        THEN g_strlcpy(p.mem, buf, BUF_TOO_SMALL_ERR, buf_size)
        ELSE [mem |-> p.mem, ret |-> len]

ip6_to_str_buf(m, addr, buf, buf_size) ==
    LET c   == g_strlcpy(m, buf, ws_inet_ntop6(addr), buf_size)
        len == c.ret
    IN  IF len > buf_size - 1
        THEN g_strlcpy(c.mem, buf, BUF_TOO_SMALL_ERR, buf_size)
        ELSE [mem |-> c.mem, ret |-> len]

\* guid_to_str_buf writing data3 before data2
guid_to_str_buf_swapped(m, guid, buf, buf_len) ==
    IF buf_len < GUID_STR_LEN
    THEN [mem |-> g_strlcpy(m, buf, BUF_TOO_SMALL_ERR, buf_len).mem, ret |-> buf]
    ELSE LET t1 == dword_to_hex(m, buf, guid.data1)
             t2 == word_to_hex(Poke(t1.mem, t1.out, "-"), t1.out + 1, guid.data3)
             t3 == word_to_hex(Poke(t2.mem, t2.out, "-"), t2.out + 1, guid.data2)
             t4 == bytes_to_hexstr(Poke(t3.mem, t3.out, "-"), t3.out + 1,
                                   [null |-> FALSE, bytes |-> SubSeq(guid.data4, 1, 8)], 2)
             t5 == bytes_to_hexstr(Poke(t4.mem, t4.out, "-"), t4.out + 1,
                                   [null |-> FALSE, bytes |-> SubSeq(guid.data4, 3, 8)], 6)
         IN  [mem |-> Poke(t5.mem, t5.out, NUL), ret |-> buf]

\* a GUID is [data1 |-> guint32, data2, data3 |-> 0..65535, data4 |-> 8 bytes]
guid_to_str_buf(m, guid, buf, buf_len) ==
    IF buf_len < GUID_STR_LEN
    THEN [mem |-> g_strlcpy(m, buf, BUF_TOO_SMALL_ERR, buf_len).mem, ret |-> buf]
    ELSE LET t1 == dword_to_hex(m, buf, guid.data1)
             t2 == word_to_hex(Poke(t1.mem, t1.out, "-"), t1.out + 1, guid.data2)
             t3 == word_to_hex(Poke(t2.mem, t2.out, "-"), t2.out + 1, guid.data3)
             t4 == bytes_to_hexstr(Poke(t3.mem, t3.out, "-"), t3.out + 1,
                                   [null |-> FALSE, bytes |-> SubSeq(guid.data4, 1, 8)], 2)
             t5 == bytes_to_hexstr(Poke(t4.mem, t4.out, "-"), t4.out + 1,
                                   [null |-> FALSE, bytes |-> SubSeq(guid.data4, 3, 8)], 6)
         IN  [mem |-> Poke(t5.mem, t5.out, NUL), ret |-> buf]

----------------------------------------------------------------------------
(* Duration formatter.  A string buffer is [max_len, str]; gint32 values   *)
(* are two limbs in two's complement.                                     *)

\* the guint32 of an integer 0 <= n < 2^31
FromInt(n) == <<n % LimbBase, n \div LimbBase>>

\* a gint32 / gint64 is negative
IsNeg(v) == v[Len(v)] >= LimbBase \div 2

G_MININT32 == <<0, 32768>>

G_MAXUINT32 == <<65535, 65535>>

TIME_SECS_LEN == 10 + 1 + 4 + 2 + 2 + 5 + 2 + 2 + 7 + 2 + 2 + 7 + 4

\* wmem_strbuf_sized_new(scope, alloc_len, max_len)
wmem_strbuf_sized_new(alloc_len, max_len) == [max_len |-> max_len, str |-> <<>>]

\* wmem_strbuf_append_printf once formatted: appends text, never growing
\* the string beyond max_len - 1 characters
wmem_strbuf_append(buf, text) ==
    [buf EXCEPT !.str = Take(buf.str \o text, buf.max_len - 1)]

\* wmem_strbuf_finalize: the string, terminated, in the buffer's memory
wmem_strbuf_finalize(buf) ==
    [fatal |-> FALSE, alloc |-> buf.max_len,
     mem |-> PokeSeq(NoMem, 0, buf.str \o <<NUL>>), ret |-> 0]

\* printf "%u"
fmt_u(v) == CanonDec(v)

\* printf "%0<width>u"
fmt_0u(v, width) ==
    LET d == CanonDec(v)
    IN  [i \in 1..(IF Len(d) < width THEN width - Len(d) ELSE 0) |-> "0"] \o d

\* PLURALIZE with the test n >= 1
PLURALIZE_ge1(n) == IF GeSmall(n, 1) THEN <<"s">> ELSE <<>>

PLURALIZE(n) == IF GeSmall(n, 2) THEN <<"s">> ELSE <<>>

COMMA(do_it) == IF do_it THEN <<",", " ">> ELSE <<>>

unsigned_time_secs_to_str_buf(time_val, frac, is_nsecs, buf) ==
    LET secs  == ModSmall(time_val, 60)
        tv1   == DivSmall(time_val, 60)
        mins  == ModSmall(tv1, 60)
        tv2   == DivSmall(tv1, 60)
        hours == ModSmall(tv2, 24)
        days  == DivSmall(tv2, 24)
        b1 == IF ~IsZero(days)
              THEN wmem_strbuf_append(buf,
                       fmt_u(days) \o <<" ", "d", "a", "y">> \o PLURALIZE(days))
              ELSE buf
        c1 == ~IsZero(days)
        b2 == IF hours # 0
              THEN wmem_strbuf_append(b1,
                       COMMA(c1) \o fmt_u(<<hours>>) \o <<" ", "h", "o", "u", "r">>
                           \o PLURALIZE(<<hours>>))
              ELSE b1
        c2 == c1 \/ hours # 0
        b3 == IF mins # 0
              THEN wmem_strbuf_append(b2,
                       COMMA(c2) \o fmt_u(<<mins>>)
                           \o <<" ", "m", "i", "n", "u", "t", "e">>
                           \o PLURALIZE(<<mins>>))
              ELSE b2
        c3 == c2 \/ mins # 0
    IN  IF secs # 0 \/ ~IsZero(frac)
        THEN IF ~IsZero(frac)
             THEN wmem_strbuf_append(b3,
                      COMMA(c3) \o fmt_u(<<secs>>) \o <<".">>
                          \o fmt_0u(frac, IF is_nsecs THEN 9 ELSE 3)
                          \o <<" ", "s", "e", "c", "o", "n", "d", "s">>)
             ELSE wmem_strbuf_append(b3,
                      COMMA(c3) \o fmt_u(<<secs>>)
                          \o <<" ", "s", "e", "c", "o", "n", "d">>
                          \o PLURALIZE(<<secs>>))
        ELSE b3

ZeroSeconds == <<"0", " ", "s", "e", "c", "o", "n", "d", "s">>

unsigned_time_secs_to_str(time_val) ==
    IF IsZero(time_val) THEN wmem_strdup(ZeroSeconds)
    ELSE wmem_strbuf_finalize(
             unsigned_time_secs_to_str_buf(time_val, Zero(2), FALSE,
                 wmem_strbuf_sized_new(TIME_SECS_LEN + 1, TIME_SECS_LEN + 1)))

signed_time_secs_to_str_buf(time_val, frac, is_nsecs, buf) ==
    IF IsNeg(time_val)
    THEN LET b == wmem_strbuf_append(buf, <<"-">>)
         IN  IF time_val = G_MININT32
             THEN unsigned_time_secs_to_str_buf(G_MAXUINT32, frac, is_nsecs, b)
             ELSE unsigned_time_secs_to_str_buf(Neg(time_val), frac, is_nsecs, b)
    ELSE unsigned_time_secs_to_str_buf(time_val, frac, is_nsecs, buf)

signed_time_secs_to_str(time_val) ==
    IF IsZero(time_val) THEN wmem_strdup(ZeroSeconds)
    ELSE wmem_strbuf_finalize(
             signed_time_secs_to_str_buf(time_val, Zero(2), FALSE,
                 wmem_strbuf_sized_new(TIME_SECS_LEN + 1, TIME_SECS_LEN + 1)))

\* what a build makes of a signed negation that overflows: the two's
\* complement result, or a trap
SignedOverflowOutcomes == {"wrap", "trap"}

\* gint32 "/" and "%" by a small positive constant: truncation toward zero,
\* the remainder taking the sign of the dividend
SDivSmall(v, d) == IF IsNeg(v) THEN Neg(DivSmall(Neg(v), d)) ELSE DivSmall(v, d)

SModSmall(v, d) == IF IsNeg(v) THEN 0 - ModSmall(Neg(v), d) ELSE ModSmall(v, d)

\* conversion of an int argument to a guint32 parameter
ToGuint32(n) == IF n < 0 THEN Neg(FromInt(0 - n)) ELSE FromInt(n)

\* overflow is the build's outcome for "-time_val" at G_MININT32
signed_time_msecs_to_str(time_val, overflow) ==
    IF IsZero(time_val) THEN wmem_strdup(ZeroSeconds)
    ELSE LET size == TIME_SECS_LEN + 1 + 3 + 1
             buf  == wmem_strbuf_sized_new(size, size)
         IN  IF IsNeg(time_val)
             THEN IF time_val = G_MININT32 /\ overflow = "trap"
                  THEN [fatal |-> TRUE, alloc |-> size, mem |-> NoMem, ret |-> 0]
                  ELSE LET t1    == Neg(time_val)
                           msecs == SModSmall(t1, 1000)
                           t2    == SDivSmall(t1, 1000)
                           t3    == Neg(t2)
                       IN  wmem_strbuf_finalize(
                               signed_time_secs_to_str_buf(t3, ToGuint32(msecs),
                                                           FALSE, buf))
             ELSE LET msecs == SModSmall(time_val, 1000)
                      t2    == SDivSmall(time_val, 1000)
                  IN  wmem_strbuf_finalize(
                          signed_time_secs_to_str_buf(t2, ToGuint32(msecs),
                                                      FALSE, buf))

----------------------------------------------------------------------------
(* Bit field formatter *)

\* G_GUINT64_CONSTANT(1) << k, 0 <= k < 64
Shl1(k) == [i \in 1..4 |-> IF i = (k \div 16) + 1 THEN 2 ^ (k % 16) ELSE 0]

\* v >> 1
Shr1(v) ==
    [i \in 1..Len(v) |->
        (v[i] \div 2)
            + (IF i < Len(v) /\ v[i + 1] % 2 = 1 THEN LimbBase \div 2 ELSE 0)]

\* a & b, same width
And(a, b) == [i \in 1..Len(a) |-> BitAnd(a[i], b[i])]

\* wmem_alloc0(scope, size): size bytes, all zero
wmem_alloc0(size) == [i \in 0..(size - 1) |-> NUL]

\* mask = 1 << (max_bits - 1), with the lowest bit instead
InitialMask_low(max_bits) == Shl1(0)

\* mask = G_GUINT64_CONSTANT(1) << (max_bits-1)
InitialMask(max_bits) == Shl1(max_bits - 1)

RECURSIVE decode_bits_lead(_, _, _, _)
\* for (bit = 0; bit < (bit_offset & 0x07); bit++) { space at 4; '.' }
decode_bits_lead(m, str_p, bit, lim) ==
    IF bit < lim /\ Stored(m)
    THEN LET sp == bit # 0 /\ bit % 4 = 0
             m1 == IF sp THEN Poke(m, str_p, " ") ELSE m
             p1 == IF sp THEN str_p + 1 ELSE str_p
         IN  decode_bits_lead(Poke(m1, p1, "."), p1 + 1, bit + 1, lim)
    ELSE [mem |-> m, str_p |-> str_p, bit |-> bit]

RECURSIVE decode_bits_value(_, _, _, _, _, _, _)
\* for (i = 0; i < max_bits; i++) { space at 4; space at 8; bit++;
\*                                  '1' or '0' by value & mask; mask >>= 1; }
decode_bits_value(m, str_p, bit, i, max_bits, value, mask) ==
    IF i < max_bits /\ Stored(m) /\ Len(mask) = 4
    THEN LET sp4 == bit # 0 /\ bit % 4 = 0
             m1  == IF sp4 THEN Poke(m, str_p, " ") ELSE m
             p1  == IF sp4 THEN str_p + 1 ELSE str_p
             sp8 == bit # 0 /\ bit % 8 = 0
             m2  == IF sp8 THEN Poke(m1, p1, " ") ELSE m1
             p2  == IF sp8 THEN p1 + 1 ELSE p1
             c   == IF ~IsZero(And(value, mask)) THEN "1" ELSE "0"
         IN  decode_bits_value(Poke(m2, p2, c), p2 + 1, bit + 1, i + 1,
                               max_bits, value, Shr1(mask))
    ELSE [mem |-> m, str_p |-> str_p, bit |-> bit]

RECURSIVE decode_bits_trail(_, _, _)
\* for (; bit % 8; bit++) { space at 4; '.' }
decode_bits_trail(m, str_p, bit) ==
    IF bit % 8 # 0 /\ Stored(m)
    THEN LET sp == bit # 0 /\ bit % 4 = 0
             m1 == IF sp THEN Poke(m, str_p, " ") ELSE m
             p1 == IF sp THEN str_p + 1 ELSE str_p
         IN  decode_bits_trail(Poke(m1, p1, "."), p1 + 1, bit + 1)
    ELSE [mem |-> m, str_p |-> str_p, bit |-> bit]

\* no_of_bits >= 1
decode_bits_in_field(bit_offset, no_of_bits, value) ==
    LET max_bits == Min(64, no_of_bits)
        mask == InitialMask(max_bits)
        size == 256 + 64
        str  == wmem_alloc0(size)
        l == decode_bits_lead(str, 0, 0, BitAnd(bit_offset, 7))
        v == decode_bits_value(l.mem, l.str_p, l.bit, 0, max_bits, value, mask)
        t == decode_bits_trail(v.mem, v.str_p, v.bit)
    IN  [fatal |-> FALSE, alloc |-> size, mem |-> t.mem, ret |-> 0]

\* the most negative value of its width: the value whose negation overflows
IsMinInt(v) == IsNeg(v) /\ Neg(v) = v

\* overflow is the build's outcome for "-value" at the minimum
int_to_str_back(m, ptr, value, overflow) ==
    IF IsNeg(value)
    THEN IF IsMinInt(value) /\ overflow = "trap"
         THEN [fatal |-> TRUE, alloc |-> 0, mem |-> m, ret |-> ptr]
         ELSE LET r == uint_to_str_back(m, ptr, Neg(value))
              IN  [fatal |-> FALSE, alloc |-> 0,
                   mem |-> Poke(r.mem, r.ptr - 1, "-"), ret |-> r.ptr - 1]
    ELSE LET r == uint_to_str_back(m, ptr, value)
         IN  [fatal |-> FALSE, alloc |-> 0, mem |-> r.mem, ret |-> r.ptr]

int64_to_str_back(m, ptr, value, overflow) ==
    IF IsNeg(value)
    THEN IF IsMinInt(value) /\ overflow = "trap"
         THEN [fatal |-> TRUE, alloc |-> 0, mem |-> m, ret |-> ptr]
         ELSE LET r == uint64_to_str_back(m, ptr, Neg(value))
              IN  [fatal |-> FALSE, alloc |-> 0,
                   mem |-> Poke(r.mem, r.ptr - 1, "-"), ret |-> r.ptr - 1]
    ELSE LET r == uint64_to_str_back(m, ptr, value)
         IN  [fatal |-> FALSE, alloc |-> 0, mem |-> r.mem, ret |-> r.ptr]

----------------------------------------------------------------------------
(* Inputs *)

Pow10Digits(k) == <<1>> \o [i \in 1..k |-> 0]

NinesDigits(k) == [i \in 1..k |-> 9]

\* decimal literals of the guint32 inputs: every power of ten, its
\* predecessor, and the ends of the range
Lits32 ==
    {Pow10Digits(k) : k \in 0..9} \cup {NinesDigits(k) : k \in 1..9} \cup
    { <<0>>, <<7>>, <<4,2>>, <<1,0,1>>, <<6,5,5,3,5>>, <<6,5,5,3,6>>,
      <<1,2,3,4,5,6,7,8,9>>, <<2,1,4,7,4,8,3,6,4,7>>, <<2,1,4,7,4,8,3,6,4,8>>,
      <<4,2,9,4,9,6,7,2,9,5>> }

Values32 == {Lit(ds, 2) : ds \in Lits32}

Lits64 ==
    {Pow10Digits(k) : k \in 0..19} \cup {NinesDigits(k) : k \in 1..19} \cup
    { <<0>>, <<4,2>>, <<4,2,9,4,9,6,7,2,9,5>>, <<4,2,9,4,9,6,7,2,9,6>>,
      <<9,2,2,3,3,7,2,0,3,6,8,5,4,7,7,5,8,0,7>>,
      <<9,2,2,3,3,7,2,0,3,6,8,5,4,7,7,5,8,0,8>>,
      <<1,2,3,4,5,6,7,8,9,0,1,2,3,4,5,6,7,8,9,0>>,
      <<1,8,4,4,6,7,4,4,0,7,3,7,0,9,5,5,1,6,1,5>> }

Values64 == {Lit(ds, 4) : ds \in Lits64}

\* declared capacities of the bounded formatters (a capacity is a size: the
\* model draws no negative one)
BufLens == 0..MaxBufLen

\* end positions handed to the backward writers
EndPtrs == {0, 24}

\* byte sequences: <<start, step>> gives start, start+step, ... modulo 256
BytePatterns == {<<1, 1>>, <<0, 0>>, <<255, 255>>, <<171, 37>>}

PatternBytes(pat, n) == [i \in 1..n |-> (pat[1] + pat[2] * (i - 1)) % 256]

ByteLens == 0..MaxByteLen

\* pointers handed to the hex-dump formatters: NULL, or the address of len bytes
NullPtr == [null |-> TRUE, bytes |-> <<>>]

PtrTo(bytes) == [null |-> FALSE, bytes |-> bytes]

BytePtrs(len) == {NullPtr} \cup {PtrTo(PatternBytes(pat, len)) : pat \in BytePatterns}

\* punctuation characters; NUL asks for none
Puncts == {NUL, ":", "-", " "}

\* IPv4 addresses: every octet value in every position, and 192.168.1.1
Ip4Addrs ==
    {<<v, 255 - v, (7 * v) % 256, (v + 100) % 256>> : v \in 0..255}
        \cup {<<192, 168, 1, 1>>, <<0, 0, 0, 0>>, <<255, 255, 255, 255>>}

\* texts the system converter produces for IPv6 addresses, 2 to 39 characters
Ip6Texts ==
    { <<":", ":">>,
      <<":", ":", "1">>,
      <<"f", "e", "8", "0", ":", ":", "1">>,
      <<"2", "0", "0", "1", ":", "d", "b", "8", ":", ":", "1">>,
      <<":", ":", "f", "f", "f", "f", ":", "1", "9", "2", ".", "1", "6", "8",
        ".", "1", ".", "1">>,
      <<"f", "f", "f", "f", ":", "f", "f", "f", "f", ":", "f", "f", "f", "f", ":",
        "f", "f", "f", "f", ":", "f", "f", "f", "f", ":", "f", "f", "f", "f", ":",
        "f", "f", "f", "f", ":", "f", "f", "f", "f">> }

Prefixes ==
    { [null |-> TRUE, text |-> <<>>],
      [null |-> FALSE, text |-> <<>>],
      [null |-> FALSE, text |-> <<"[">>],
      [null |-> FALSE, text |-> <<"s", "r", "c", " ">>] }

AddrBufLens == 0..MaxAddrBufLen

\* the guint32 with the big-endian bytes b
U32OfBytes(b) == <<b[3] * 256 + b[4], b[1] * 256 + b[2]>>

Guids ==
    { [data1 |-> U32OfBytes(d1), data2 |-> d2, data3 |-> d3,
       data4 |-> PatternBytes(d4, 8)] :
          d1 \in {<<1, 2, 3, 4>>, <<0, 0, 0, 10>>, <<255, 255, 255, 255>>,
                  <<222, 173, 190, 239>>},
          d2 \in {1286, 15},
          d3 \in {1800, 65535},
          d4 \in {<<9, 1>>, <<240, 3>>} }

\* durations d days, h hours, m minutes, s seconds, in seconds
ComponentTimes ==
    {d * 86400 + h * 3600 + m * 60 + sec :
        d \in {0, 1, 2}, h \in {0, 1, 23}, m \in {0, 1, 59}, sec \in {0, 1, 2, 59}}

\* guint32 durations: the component combinations and the ends of the range
TimeVals32 ==
    {FromInt(n) : n \in ComponentTimes \cup {90061, 2147483647}}
        \cup {<<0, 32768>>, <<65535, 65535>>}

\* gint32 durations: the component combinations with either sign and the
\* ends of the range
SignedTimeVals32 ==
    LET pos == {FromInt(n) : n \in ComponentTimes \cup {90061, 2147483647}}
    IN  pos \cup {Neg(v) : v \in pos} \cup {G_MININT32}

\* gint32 millisecond durations: component combinations with a zero, a
\* small and a large remainder, either sign, and the ends of the range
MsecVals32 ==
    LET pos0 == {FromInt(t * 1000 + r) :
                   t \in {0, 1, 59, 60, 3600, 3661, 86400, 90061, 172800, 2147482},
                   r \in {0, 1, 20, 500, 647, 999}}
                   \cup {FromInt(2147483647)}
        pos == pos0 \ {Zero(2)}
    IN  pos \cup {Neg(v) : v \in pos} \cup {G_MININT32}

\* bit offsets, also beyond the first byte
BitOffsets == 0..17

\* field widths: within a byte, across bytes, at and beyond the 64-bit limit
BitWidths == (1..17) \cup {24, 31, 32, 33, 48, 57, 63, 64, 65, 70}

\* 64-bit values: zero, all ones, one, the top bit, 0b10110, mixed patterns
BitValues ==
    {Zero(4), <<65535, 65535, 65535, 65535>>, <<1, 0, 0, 0>>, <<0, 0, 0, 32768>>,
     <<22, 0, 0, 0>>, <<42405, 23130, 4660, 43981>>, <<0, 1, 0, 0>>}

\* gint32 / gint64 values: the bit patterns of the unsigned inputs and of
\* their negations, the minimum among them
SignedValues32 == Values32 \cup {Neg(v) : v \in Values32}

SignedValues64 == Values64 \cup {Neg(v) : v \in Values64}

----------------------------------------------------------------------------
(* State machine: a caller makes one call, reads the result, releases it.  *)

Init ==
    /\ pc = "idle"
    /\ fn = "none"
    /\ arg = <<>>
    /\ mem = NoMem
    /\ ret = 0
    /\ fatal = FALSE
    /\ iters = 0
    /\ alloc = 0

Done(f, a, m, r) ==
    /\ pc' = "done"
    /\ fn' = f
    /\ arg' = a
    /\ mem' = m
    /\ ret' = r
    /\ fatal' = FALSE
    /\ alloc' = 0

Call_guint32_to_str_buf_len ==
    /\ pc = "idle"
    /\ \E u \in Values32 :
          Done("guint32_to_str_buf_len", [u |-> u], NoMem, guint32_to_str_buf_len(u))
    /\ iters' = 0

Call_guint64_to_str_buf_len ==
    /\ pc = "idle"
    /\ \E u \in Values64 :
          Done("guint64_to_str_buf_len", [u |-> u], NoMem, guint64_to_str_buf_len(u))
    /\ iters' = 0

Call_uint_to_str_back ==
    /\ pc = "idle"
    /\ \E value \in Values32, ptr \in EndPtrs :
          LET r == uint_to_str_back(NoMem, ptr, value)
          IN  /\ Done("uint_to_str_back", [ptr |-> ptr, value |-> value], r.mem, r.ptr)
              /\ iters' = r.iters

Call_uint64_to_str_back ==
    /\ pc = "idle"
    /\ \E value \in Values64, ptr \in EndPtrs :
          LET r == uint64_to_str_back(NoMem, ptr, value)
          IN  /\ Done("uint64_to_str_back", [ptr |-> ptr, value |-> value], r.mem, r.ptr)
              /\ iters' = r.iters

Call_guint32_to_str_buf ==
    /\ pc = "idle"
    /\ \E u \in Values32, buf_len \in BufLens :
          Done("guint32_to_str_buf", [u |-> u, buf_len |-> buf_len],
               guint32_to_str_buf(NoMem, u, 0, buf_len), 0)
    /\ iters' = 0

Call_guint64_to_str_buf ==
    /\ pc = "idle"
    /\ \E u \in Values64, buf_len \in BufLens :
          Done("guint64_to_str_buf", [u |-> u, buf_len |-> buf_len],
               guint64_to_str_buf(NoMem, u, 0, buf_len), 0)
    /\ iters' = 0

\* return of a routine that allocates its result or raises
DoneAlloc(f, a, r) ==
    /\ pc' = "done"
    /\ fn' = f
    /\ arg' = a
    /\ mem' = r.mem
    /\ ret' = r.ret
    /\ fatal' = r.fatal
    /\ alloc' = r.alloc
    /\ iters' = 0

Call_bytestring_to_str ==
    /\ pc = "idle"
    /\ \E len \in ByteLens : \E ad \in BytePtrs(len), punct \in Puncts :
          DoneAlloc("bytestring_to_str", [ad |-> ad, len |-> len, punct |-> punct],
                    bytestring_to_str(ad, len, punct))

\* bytes_to_str has no punct parameter; arg records it as NUL, the value with
\* which bytestring_to_str delegates to it
Call_bytes_to_str ==
    /\ pc = "idle"
    /\ \E bd_len \in ByteLens : \E bd \in BytePtrs(bd_len) :
          DoneAlloc("bytes_to_str", [ad |-> bd, len |-> bd_len, punct |-> NUL],
                    bytes_to_str(bd, bd_len))

Call_ip_to_str_buf ==
    /\ pc = "idle"
    /\ \E ad \in Ip4Addrs, buf_len \in BufLens :
          Done("ip_to_str_buf", [ad |-> ad, buf_len |-> buf_len],
               ip_to_str_buf(NoMem, ad, 0, buf_len), 0)
    /\ iters' = 0

Call_ip6_to_str_buf_with_pfx ==
    /\ pc = "idle"
    /\ \E addr \in Ip6Texts, buf_size \in AddrBufLens, prefix \in Prefixes :
          LET r == ip6_to_str_buf_with_pfx(NoMem, addr, 0, buf_size, prefix)
          IN  Done("ip6_to_str_buf_with_pfx",
                   [addr |-> addr, buf_size |-> buf_size, prefix |-> prefix],
                   r.mem, r.ret)
    /\ iters' = 0

Call_guid_to_str_buf ==
    /\ pc = "idle"
    /\ \E guid \in Guids, buf_len \in AddrBufLens :
          LET r == guid_to_str_buf(NoMem, guid, 0, buf_len)
          IN  Done("guid_to_str_buf", [guid |-> guid, buf_len |-> buf_len],
                   r.mem, r.ret)
    /\ iters' = 0

Call_unsigned_time_secs_to_str ==
    /\ pc = "idle"
    /\ \E time_val \in TimeVals32 :
          DoneAlloc("unsigned_time_secs_to_str", [time_val |-> time_val],
                    unsigned_time_secs_to_str(time_val))

Call_signed_time_secs_to_str ==
    /\ pc = "idle"
    /\ \E time_val \in SignedTimeVals32 :
          DoneAlloc("signed_time_secs_to_str", [time_val |-> time_val],
                    signed_time_secs_to_str(time_val))

Call_signed_time_msecs_to_str ==
    /\ pc = "idle"
    /\ \E time_val \in MsecVals32, overflow \in SignedOverflowOutcomes :
          DoneAlloc("signed_time_msecs_to_str", [time_val |-> time_val],
                    signed_time_msecs_to_str(time_val, overflow))

Call_decode_bits_in_field ==
    /\ pc = "idle"
    /\ \E bit_offset \in BitOffsets, no_of_bits \in BitWidths, value \in BitValues :
          DoneAlloc("decode_bits_in_field",
                    [bit_offset |-> bit_offset, no_of_bits |-> no_of_bits,
                     value |-> value],
                    decode_bits_in_field(bit_offset, no_of_bits, value))

Call_int_to_str_back ==
    /\ pc = "idle"
    /\ \E value \in SignedValues32, ptr \in EndPtrs,
          overflow \in SignedOverflowOutcomes :
          DoneAlloc("int_to_str_back", [ptr |-> ptr, value |-> value],
                    int_to_str_back(NoMem, ptr, value, overflow))

Call_int64_to_str_back ==
    /\ pc = "idle"
    /\ \E value \in SignedValues64, ptr \in EndPtrs,
          overflow \in SignedOverflowOutcomes :
          DoneAlloc("int64_to_str_back", [ptr |-> ptr, value |-> value],
                    int64_to_str_back(NoMem, ptr, value, overflow))

Call_ip6_to_str_buf ==
    /\ pc = "idle"
    /\ \E addr \in Ip6Texts, buf_size \in AddrBufLens :
          LET r == ip6_to_str_buf(NoMem, addr, 0, buf_size)
          IN  Done("ip6_to_str_buf", [addr |-> addr, buf_size |-> buf_size],
                   r.mem, r.ret)
    /\ iters' = 0

\* the caller drops the result and is ready for the next call
Release ==
    /\ pc = "done"
    /\ pc' = "idle"
    /\ fn' = "none"
    /\ arg' = <<>>
    /\ mem' = NoMem
    /\ ret' = 0
    /\ fatal' = FALSE
    /\ iters' = 0
    /\ alloc' = 0

Next ==
    \/ Call_guint32_to_str_buf_len
    \/ Call_guint64_to_str_buf_len
    \/ Call_uint_to_str_back
    \/ Call_uint64_to_str_back
    \/ Call_guint32_to_str_buf
    \/ Call_guint64_to_str_buf
    \/ Call_bytestring_to_str
    \/ Call_bytes_to_str
    \/ Call_ip_to_str_buf
    \/ Call_ip6_to_str_buf_with_pfx
    \/ Call_guid_to_str_buf
    \/ Call_unsigned_time_secs_to_str
    \/ Call_signed_time_secs_to_str
    \/ Call_signed_time_msecs_to_str
    \/ Call_decode_bits_in_field
    \/ Call_int_to_str_back
    \/ Call_int64_to_str_back
    \/ Call_ip6_to_str_buf
    \/ Release

Spec == Init /\ [][Next]_vars

----------------------------------------------------------------------------
(* Properties *)

U32Max == Lit(<<4,2,9,4,9,6,7,2,9,5>>, 2)

U64Max == Lit(<<1,8,4,4,6,7,4,4,0,7,3,7,0,9,5,5,1,6,1,5>>, 4)

InBoundedFormat == pc = "done" /\ fn \in {"guint32_to_str_buf", "guint64_to_str_buf"}

\* the bytes a capacity failure leaves for capacity n: the sentinel cut to
\* n-1 characters and its terminator, nothing at all for n = 0
SentinelFor(n) ==
    IF n = 0 THEN <<>> ELSE Take(BUF_TOO_SMALL_ERR, n - 1) \o <<NUL>>

\* exactly the bytes of s were stored, from index 0 on
HoldsExactly(m, s) == DOMAIN m = 0..(Len(s) - 1) /\ Span(m, 0, Len(s)) = s

\* C1: guint32_to_str_buf / guint64_to_str_buf with capacity buf_len store
\* exactly the canonical decimal text of u and a NUL when
\* buf_len >= digits(u)+1, and otherwise store no digit of the number but the
\* sentinel "[Buffer too small]" cut to buf_len-1 characters;
\* 4294967295 with capacity 11 gives "4294967295", with capacity 10 the
\* sentinel text.
C1_NumberOrSentinel ==
    InBoundedFormat =>
        LET text == CanonDec(arg.u)
        IN  /\ IF arg.buf_len >= Len(text) + 1
               THEN HoldsExactly(mem, text \o <<NUL>>)
               ELSE HoldsExactly(mem, SentinelFor(arg.buf_len))
            /\ (arg.u = U32Max /\ arg.buf_len = 11) =>
                  CStr(mem, 0) = <<"4","2","9","4","9","6","7","2","9","5">>
            /\ (arg.u = U32Max /\ arg.buf_len = 10) =>
                  CStr(mem, 0) = <<"[","B","u","f","f","e","r"," ","t">>

C1_Witness ==
    /\ InBoundedFormat
    /\ fn = "guint64_to_str_buf"
    /\ arg.u = U64Max
    /\ arg.buf_len = 20
    /\ CStr(mem, 0) = BUF_TOO_SMALL_ERR

\* C2 (as stated): for every capacity buf_len, on both paths, the buffer
\* holds a NUL at some index < buf_len and no index >= buf_len is written.
C2_Original ==
    InBoundedFormat =>
        /\ HasNul(mem, 0, arg.buf_len)
        /\ \A i \in DOMAIN mem : i < arg.buf_len

\* C2 (amended): for every capacity buf_len >= 1, on both paths, the buffer
\* holds a NUL at some index < buf_len and no index outside 0..buf_len-1 is
\* written.
C2_TerminatedWithinCapacity ==
    (InBoundedFormat /\ arg.buf_len >= 1) =>
        /\ HasNul(mem, 0, arg.buf_len)
        /\ \A i \in DOMAIN mem : 0 <= i /\ i < arg.buf_len

C2_Witness ==
    /\ InBoundedFormat
    /\ fn = "guint32_to_str_buf"
    /\ arg.u = U32Max
    /\ arg.buf_len = 5
    /\ Peek(mem, 4) = NUL

\* C3: guint32_to_str_buf_len(v) and guint64_to_str_buf_len(v) equal the
\* length of the canonical decimal text of v, and step exactly at each
\* power of ten: 10^k has k+1 digits and 10^k - 1 has k.
C3_DigitCount ==
    /\ (pc = "done" /\ fn = "guint32_to_str_buf_len") =>
          /\ ret = Len(CanonDec(arg.u))
          /\ \A k \in 1..9 :
                /\ arg.u = Lit(Pow10Digits(k), 2) => ret = k + 1
                /\ arg.u = Lit(NinesDigits(k), 2) => ret = k
    /\ (pc = "done" /\ fn = "guint64_to_str_buf_len") =>
          /\ ret = Len(CanonDec(arg.u))
          /\ \A k \in 1..19 :
                /\ arg.u = Lit(Pow10Digits(k), 4) => ret = k + 1
                /\ arg.u = Lit(NinesDigits(k), 4) => ret = k

C3_Witness ==
    /\ pc = "done"
    /\ fn = "guint64_to_str_buf_len"
    /\ arg.u = Lit(Pow10Digits(19), 4)
    /\ ret = 20

\* C4: uint_to_str_back / uint64_to_str_back store, right before ptr, exactly
\* the canonical decimal text of the value ("0" for zero), taking one loop
\* step per two digits, and return ptr minus the digit count; parsing the
\* text between the returned position and ptr gives the value back.
C4_BackwardWrite ==
    (pc = "done" /\ fn \in {"uint_to_str_back", "uint64_to_str_back"}) =>
        LET text == CanonDec(arg.value)
        IN  /\ ret = arg.ptr - Len(text)
            /\ DOMAIN mem = ret..(arg.ptr - 1)
            /\ Span(mem, ret, arg.ptr) = text
            /\ ParseDec(Span(mem, ret, arg.ptr), Len(arg.value)) = arg.value
            /\ iters = Len(text) \div 2
            /\ IsZero(arg.value) => Span(mem, ret, arg.ptr) = <<"0">>

C4_Witness ==
    /\ pc = "done"
    /\ fn = "uint64_to_str_back"
    /\ arg.value = U64Max
    /\ ret = arg.ptr - 20
    /\ iters = 10

LowerHex ==
    <<"0", "1", "2", "3", "4", "5", "6", "7",
      "8", "9", "a", "b", "c", "d", "e", "f">>

\* the two lowercase hex characters of a byte, high nibble first
HexPair(b) == <<LowerHex[(b \div 16) + 1], LowerHex[(b % 16) + 1]>>

\* hex pairs of the bytes in order, sep (<<>> or one character) between
\* consecutive pairs
HexJoin(bs, sep) ==
    LET stride == 2 + Len(sep)
        total  == IF bs = <<>> THEN 0 ELSE stride * Len(bs) - Len(sep)
    IN  [k \in 1..total |->
            LET b == bs[((k - 1) \div stride) + 1]
                o == (k - 1) % stride
            IN  IF o < 2 THEN HexPair(b)[o + 1] ELSE sep[1]]

Ellipsis == <<"xE2", "x80", "xA6">>

InHexDump == pc = "done" /\ fn \in {"bytestring_to_str", "bytes_to_str"}

\* C5 (as stated): an unpunctuated hex dump (bytes_to_str, or bytestring_to_str with
\* punct NUL) of 1..24 bytes is the 2*len hex characters of all the bytes
\* with no ellipsis; of more than 24 bytes it is the 48 hex characters of
\* the first 24 bytes followed by one ellipsis; the 25 bytes 0x01..0x19 give
\* "0102...1718" and the ellipsis.
C5_UnpunctuatedCeiling ==
    (InHexDump /\ arg.punct = NUL /\ ~arg.ad.null /\ arg.len >= 1) =>
        LET text == CStr(mem, 0)
        IN  /\ ~fatal
            /\ arg.len <= 24 =>
                  /\ text = HexJoin(arg.ad.bytes, <<>>)
                  /\ Len(text) = 2 * arg.len
            /\ arg.len > 24 =>
                  /\ text = HexJoin(Take(arg.ad.bytes, 24), <<>>) \o Ellipsis
                  /\ Len(text) = 48 + 3
            /\ (arg.len = 25 /\ arg.ad.bytes = PatternBytes(<<1, 1>>, 25)) =>
                  text = <<"0","1","0","2","0","3","0","4","0","5","0","6",
                           "0","7","0","8","0","9","0","a","0","b","0","c",
                           "0","d","0","e","0","f","1","0","1","1","1","2",
                           "1","3","1","4","1","5","1","6","1","7","1","8",
                           "xE2","x80","xA6">>

C7_ZeroLengthNeverFatal ==
    InHexDump =>
        /\ arg.len = 0 => (~fatal /\ Peek(mem, ret) = NUL)
        /\ fatal <=> (arg.ad.null /\ arg.len # 0)

\* C8 (as stated): ip6_to_str_buf_with_pfx with address text of length A,
\* prefix of length P (NULL meaning empty), buf_size >= 1 and L = P + A: if
\* L <= buf_size-1 the buffer holds prefix then address and L is returned;
\* otherwise the buffer holds the sentinel cut to fit and the sentinel's
\* length is returned; the buffer never holds a cut prefix+address.
C8_Ip6FullOrSentinel ==
    (pc = "done" /\ fn = "ip6_to_str_buf_with_pfx" /\ arg.buf_size >= 1) =>
        LET pfx  == IF arg.prefix.null THEN <<>> ELSE arg.prefix.text
            full == pfx \o arg.addr
        IN  IF Len(full) <= arg.buf_size - 1
            THEN CStr(mem, 0) = full /\ ret = Len(full)
            ELSE /\ CStr(mem, 0) = Take(BUF_TOO_SMALL_ERR, arg.buf_size - 1)
                 /\ ret = Len(BUF_TOO_SMALL_ERR)

\* canonical decimal text of an octet
OctetDec(b) == CanonDec(<<b>>)

DottedQuad(ad) ==
    OctetDec(ad[1]) \o <<".">> \o OctetDec(ad[2]) \o <<".">>
        \o OctetDec(ad[3]) \o <<".">> \o OctetDec(ad[4])

\* C9: ip_to_str_buf with buf_len >= 16 stores the four octets in input
\* order, each in canonical decimal without leading zeros, separated by
\* single dots and followed by a NUL, 7 to 15 characters in all
\* (192,168,1,1 gives "192.168.1.1"); with buf_len < 16 it stores no address
\* text but the sentinel cut to fit buf_len.
C9_DottedQuadOrSentinel ==
    (pc = "done" /\ fn = "ip_to_str_buf") =>
        LET text == DottedQuad(arg.ad)
        IN  /\ IF arg.buf_len >= 16
               THEN /\ HoldsExactly(mem, text \o <<NUL>>)
                    /\ Len(text) >= 7 /\ Len(text) <= 15
               ELSE HoldsExactly(mem, SentinelFor(arg.buf_len))
            /\ (arg.ad = <<192, 168, 1, 1>> /\ arg.buf_len >= 16) =>
                  CStr(mem, 0) = <<"1","9","2",".","1","6","8",".","1",".","1">>

C9_Witness ==
    /\ pc = "done"
    /\ fn = "ip_to_str_buf"
    /\ arg.ad = <<192, 168, 1, 1>>
    /\ arg.buf_len = 16
    /\ Span(mem, 0, 12) = <<"1","9","2",".","1","6","8",".","1",".","1", NUL>>

\* big-endian bytes of a guint32 and of a guint16
BEBytes32(v) == <<v[2] \div 256, v[2] % 256, v[1] \div 256, v[1] % 256>>

BEBytes16(w) == <<w \div 256, w % 256>>

GuidText(g) ==
    HexJoin(BEBytes32(g.data1), <<>>) \o <<"-">>
        \o HexJoin(BEBytes16(g.data2), <<>>) \o <<"-">>
        \o HexJoin(BEBytes16(g.data3), <<>>) \o <<"-">>
        \o HexJoin(SubSeq(g.data4, 1, 2), <<>>) \o <<"-">>
        \o HexJoin(SubSeq(g.data4, 3, 8), <<>>)

ExampleGuid ==
    [data1 |-> U32OfBytes(<<1, 2, 3, 4>>), data2 |-> 1286, data3 |-> 1800,
     data4 |-> <<9, 10, 11, 12, 13, 14, 15, 16>>]

\* C10: guid_to_str_buf with buf_len >= 37 stores exactly 36 characters and
\* a NUL in the form 8-4-4-4-12 lowercase hex digits: data1, data2, data3
\* big-endian with leading zeros, data4[0..1], data4[2..7], with '-' at
\* positions 8, 13, 18 and 23; with buf_len < 37 it stores the sentinel cut
\* to fit.  01020304/0506/0708/09..10 gives
\* "01020304-0506-0708-090a-0b0c0d0e0f10".
C10_GuidTextOrSentinel ==
    (pc = "done" /\ fn = "guid_to_str_buf") =>
        LET text == GuidText(arg.guid)
        IN  /\ ret = 0
            /\ IF arg.buf_len >= 37
               THEN /\ HoldsExactly(mem, text \o <<NUL>>)
                    /\ Len(text) = 36
                    /\ \A i \in 0..35 : (mem[i] = "-") <=> (i \in {8, 13, 18, 23})
               ELSE HoldsExactly(mem, SentinelFor(arg.buf_len))
            /\ (arg.guid = ExampleGuid /\ arg.buf_len >= 37) =>
                  CStr(mem, 0) =
                     <<"0","1","0","2","0","3","0","4","-","0","5","0","6","-",
                       "0","7","0","8","-","0","9","0","a","-",
                       "0","b","0","c","0","d","0","e","0","f","1","0">>

C10_Witness ==
    /\ pc = "done"
    /\ fn = "guid_to_str_buf"
    /\ arg.guid = ExampleGuid
    /\ arg.buf_len = 37
    /\ Span(mem, 19, 37) = <<"0","9","0","a","-","0","b","0","c","0","d","0","e",
                              "0","f","1","0", NUL>>

\* reference decomposition of a guint32 number of seconds
RefDays(t) == DivSmall(DivSmall(t, 864), 100)

RefHours(t) == ModSmall(DivSmall(DivSmall(t, 36), 100), 24)

RefMinutes(t) == ModSmall(DivSmall(t, 60), 60)

RefSeconds(t) == ModSmall(t, 60)

\* "<n> <unit>", with "s" appended iff n > 1
RefComponent(n, unit) ==
    CanonDec(n) \o <<" ">> \o unit \o (IF GeSmall(n, 2) THEN <<"s">> ELSE <<>>)

RECURSIVE JoinComma(_)
JoinComma(parts) ==
    IF parts = <<>> THEN <<>>
    ELSE IF Len(parts) = 1 THEN parts[1]
    ELSE parts[1] \o <<",", " ">> \o JoinComma(Tail(parts))

\* the nonzero components of t in the order days, hours, minutes, seconds
RefDurationText(t) ==
    LET d == RefDays(t)
        h == <<RefHours(t)>>
        m == <<RefMinutes(t)>>
        sec == <<RefSeconds(t)>>
    IN  JoinComma(
            (IF IsZero(d) THEN <<>> ELSE <<RefComponent(d, <<"d","a","y">>)>>)
         \o (IF IsZero(h) THEN <<>> ELSE <<RefComponent(h, <<"h","o","u","r">>)>>)
         \o (IF IsZero(m) THEN <<>>
             ELSE <<RefComponent(m, <<"m","i","n","u","t","e">>)>>)
         \o (IF IsZero(sec) THEN <<>>
             ELSE <<RefComponent(sec, <<"s","e","c","o","n","d">>)>>))

\* C11: unsigned_time_secs_to_str renders 0 as "0 seconds" and t > 0 as its
\* nonzero components days = t/86400, hours = (t/3600) mod 24, minutes =
\* (t/60) mod 60, seconds = t mod 60, in that order, each "<n> <unit>" with
\* "s" iff n > 1, joined by ", "; the text is never empty and 90061 gives
\* "1 day, 1 hour, 1 minute, 1 second".
C11_UnsignedDuration ==
    (pc = "done" /\ fn = "unsigned_time_secs_to_str") =>
        LET text == CStr(mem, 0)
        IN  /\ ~fatal
            /\ Peek(mem, Len(text)) = NUL
            /\ text # <<>>
            /\ IsZero(arg.time_val) => text = ZeroSeconds
            /\ ~IsZero(arg.time_val) => text = RefDurationText(arg.time_val)
            /\ arg.time_val = FromInt(90061) =>
                  text = <<"1"," ","d","a","y",",", " ","1"," ","h","o","u","r",
                           ","," ","1"," ","m","i","n","u","t","e",","," ",
                           "1"," ","s","e","c","o","n","d">>

C11_Witness ==
    /\ pc = "done"
    /\ fn = "unsigned_time_secs_to_str"
    /\ arg.time_val = FromInt(90061)
    /\ Span(mem, 0, 6) = <<"1", " ", "d", "a", "y", ",">>
    /\ Len(CStr(mem, 0)) = 33

\* C12 (as stated): for every negative gint32 v, the minimum included,
\* signed_time_secs_to_str(v) is one '-' followed by the text of the unsigned
\* decomposition of the magnitude |v|; for the minimum the magnitude is
\* 2147483648 seconds: 24855 days, 3 hours, 14 minutes, 8 seconds.
C12_NegativeDuration ==
    (pc = "done" /\ fn = "signed_time_secs_to_str" /\ IsNeg(arg.time_val)) =>
        LET text == CStr(mem, 0)
        IN  /\ ~fatal
            /\ text = <<"-">> \o RefDurationText(Neg(arg.time_val))
            /\ arg.time_val = G_MININT32 =>
                  text = <<"-","2","4","8","5","5"," ","d","a","y","s",","," ",
                           "3"," ","h","o","u","r","s",","," ",
                           "1","4"," ","m","i","n","u","t","e","s",","," ",
                           "8"," ","s","e","c","o","n","d","s">>

\* reference text of a magnitude in milliseconds: days, hours and minutes of
\* the whole seconds, then the seconds with the remainder as three digits
RefMsecsText(mag) ==
    LET whole == DivSmall(mag, 1000)
        r     == ModSmall(mag, 1000)
        d   == RefDays(whole)
        h   == <<RefHours(whole)>>
        m   == <<RefMinutes(whole)>>
        sec == <<RefSeconds(whole)>>
        r3  == <<Digit(r \div 100), Digit((r \div 10) % 10), Digit(r % 10)>>
    IN  JoinComma(
            (IF IsZero(d) THEN <<>> ELSE <<RefComponent(d, <<"d","a","y">>)>>)
         \o (IF IsZero(h) THEN <<>> ELSE <<RefComponent(h, <<"h","o","u","r">>)>>)
         \o (IF IsZero(m) THEN <<>>
             ELSE <<RefComponent(m, <<"m","i","n","u","t","e">>)>>)
         \o (IF r # 0
             THEN <<CanonDec(sec) \o <<".">> \o r3
                       \o <<" ","s","e","c","o","n","d","s">>>>
             ELSE IF IsZero(sec) THEN <<>>
             ELSE <<RefComponent(sec, <<"s","e","c","o","n","d">>)>>))

\* C13 (as stated): for every negative gint32 millisecond value m,
\* signed_time_msecs_to_str(m) is exactly one '-' followed by the unsigned
\* decomposition of |m| (whole seconds |m|/1000 as days, hours, minutes,
\* seconds; |m| mod 1000 as a three-digit fraction when nonzero), also for
\* -999 <= m <= -1.
C13_NegativeMsecs ==
    (pc = "done" /\ fn = "signed_time_msecs_to_str" /\ IsNeg(arg.time_val)) =>
        /\ ~fatal
        /\ CStr(mem, 0) = <<"-">> \o RefMsecsText(Neg(arg.time_val))

\* bit k of a 64-bit value
RefBit(value, k) == (value[(k \div 16) + 1] \div (2 ^ (k % 16))) % 2

\* the character of bit position p in a field of w bits at offset o
RefBitChar(o, w, value, p) ==
    IF p < o \/ p >= o + w THEN "."
    ELSE IF RefBit(value, w - 1 - (p - o)) = 1 THEN "1" ELSE "0"

\* the text without its spaces
Strip(text) == SelectSeq(text, LAMBDA c : c # " ")

\* index in the text of bit position p: one space before every position that
\* is a multiple of 4, one more before every multiple of 8
RefBitIndex(p) == p + (p \div 4) + (p \div 8) + 1

\* C14: for no_of_bits >= 1, o = bit_offset mod 8 and w = min(64,
\* no_of_bits), decode_bits_in_field returns a NUL-terminated string that
\* without its spaces is o '.', then the w bits of value from bit w-1 down
\* to bit 0, then '.' up to the next multiple of 8; spaces stand only
\* between bit positions, one at a 4-bit boundary inside a byte, two at a
\* byte boundary, none at the start or the end.
C14_BitFieldText ==
    (pc = "done" /\ fn = "decode_bits_in_field") =>
        LET o == arg.bit_offset % 8
            w == Min(64, arg.no_of_bits)
            total == ((o + w + 7) \div 8) * 8
            text == CStr(mem, 0)
            bare == Strip(text)
        IN  /\ ~fatal
            /\ DOMAIN mem \subseteq 0..(alloc - 1)
            /\ HasNul(mem, 0, 128)
            /\ Len(bare) = total
            /\ \A p \in 0..(total - 1) :
                  bare[p + 1] = RefBitChar(o, w, arg.value, p)
            /\ Len(text) = RefBitIndex(total - 1)
            /\ \A p \in 0..(total - 1) :
                  text[RefBitIndex(p)] = RefBitChar(o, w, arg.value, p)
            /\ text[1] # " " /\ text[Len(text)] # " "
            /\ (arg.bit_offset = 3 /\ arg.no_of_bits = 5
                    /\ arg.value = <<22, 0, 0, 0>>) =>
                  text = <<".", ".", ".", "1", " ", "0", "1", "1", "0">>

\* a 64-bit field at offset 7 of a value with mixed bits: nine bytes of text
C14_Witness ==
    /\ pc = "done"
    /\ fn = "decode_bits_in_field"
    /\ arg.bit_offset = 15
    /\ arg.no_of_bits = 70
    /\ arg.value = <<42405, 23130, 4660, 43981>>
    /\ Len(CStr(mem, 0)) = 97
    /\ Span(mem, 0, 13) = <<".", ".", ".", ".", " ", ".", ".", ".", "1",
                             " ", " ", "0", "1">>

\* canonical signed decimal text of a two's complement value
RefSignedDec(v) == IF IsNeg(v) THEN <<"-">> \o CanonDec(Neg(v)) ELSE CanonDec(v)

C16_Ip6SameAsNullPrefix ==
    (pc = "done" /\ fn = "ip6_to_str_buf" /\ arg.buf_size >= 1) =>
        LET r == ip6_to_str_buf_with_pfx(NoMem, arg.addr, 0, arg.buf_size,
                                         [null |-> TRUE, text |-> <<>>])
        IN  /\ CStr(mem, 0) = CStr(r.mem, 0)
            /\ ret = r.ret

\* the characters of text that are hex digits
HexDigitsOf(text) == SelectSeq(text, LAMBDA c : \E k \in 1..16 : LowerHex[k] = c)

\* C17: on both hex-dump paths, for every input of length >= 1, the bytes
\* written (hex digits, separators, trailing separator, ellipsis, NUL) all
\* lie inside the allocation of MAX_BYTE_STR_LEN+3+1 = 76 bytes, and the
\* text holds at most MAX_BYTE_STR_LEN = 72 hex digits.
C17_HexDumpWithinAllocation ==
    (InHexDump /\ ~arg.ad.null /\ arg.len >= 1) =>
        /\ ~fatal
        /\ alloc = MAX_BYTE_STR_LEN + 3 + 1
        /\ alloc = 76
        /\ DOMAIN mem \subseteq 0..(alloc - 1)
        /\ Cardinality(DOMAIN mem) <= 76
        /\ HasNul(mem, 0, alloc)
        /\ Len(HexDigitsOf(CStr(mem, 0))) <= MAX_BYTE_STR_LEN

\* an unpunctuated dump that is cut fills the allocation to its last byte:
\* 72 hex digits, the ellipsis in 72..74, the NUL in 75
C17_Witness ==
    /\ InHexDump
    /\ fn = "bytes_to_str"
    /\ ~arg.ad.null
    /\ arg.len = 37
    /\ DOMAIN mem = 0..75
    /\ Len(HexDigitsOf(CStr(mem, 0))) = 72
    /\ Span(mem, 72, 76) = <<"xE2", "x80", "xA6", NUL>>

====
